---------------------------- MODULE Spec2Model ----------------------------
(***************************************************************************)
(* A model of auth/crypto.go: the httpKeySource key cache (Keys,           *)
(* hasExpired, refreshKeys, findMaxAge, parsePublicKeys, parsePublicKey),  *)
(* and verifySignature and serviceAcctSigner (Email, Sign) as functions    *)
(* applied to arguments of their own.                                      *)
(*                                                                         *)
(* Time is counted in whole seconds from the first clock reading.  A       *)
(* slice is a reference into `heap` (0 is the nil slice), so that two      *)
(* slice values sharing one backing array are visible as such.  Strings    *)
(* that the code takes apart (the Cache-Control value) are sequences of    *)
(* one-character strings.                                                  *)
(***************************************************************************)
EXTENDS Integers, Sequences, FiniteSets, TLC

\* ------------------------------------------------------------------ bounds
MaxClock == 1
MaxCalls == 3
MaxEntries == 2

\* The goroutines that call Keys on the one httpKeySource.
Callers == {"c1", "c2"}

\* ----------------------------------------------------------------- strings
Digits == <<"0", "1", "2", "3", "4", "5", "6", "7", "8", "9">>

IsDigit(ch) == \E i \in 1..Len(Digits) : Digits[i] = ch

DigitVal(ch) == (CHOOSE i \in 1..Len(Digits) : Digits[i] = ch) - 1

IsSpace(ch) == ch \in {" ", "\t", "\n", "\r"}

\* strings.Index(s, ch) for a one-character separator: 0-based, -1 if absent.
Index(s, ch) ==
    IF \E i \in 1..Len(s) : s[i] = ch
    THEN (CHOOSE i \in 1..Len(s) : s[i] = ch /\ \A j \in 1..(i - 1) : s[j] # ch) - 1
    ELSE -1

\* s[from:] with Go's 0-based offset.
SliceFrom(s, from) == SubSeq(s, from + 1, Len(s))

\* strings.Split(s, sep) for a one-character separator.
RECURSIVE Split(_, _)
Split(s, sep) ==
    LET i == Index(s, sep)
    IN  IF i < 0 THEN <<s>>
        ELSE <<SubSeq(s, 1, i)>> \o Split(SliceFrom(s, i + 1), sep)

RECURSIVE TrimLeft(_)
TrimLeft(s) ==
    IF Len(s) > 0 /\ IsSpace(s[1]) THEN TrimLeft(Tail(s)) ELSE s

RECURSIVE TrimRight(_)
TrimRight(s) ==
    IF Len(s) > 0 /\ IsSpace(s[Len(s)])
    THEN TrimRight(SubSeq(s, 1, Len(s) - 1)) ELSE s

\* TrimSpace that leaves the white space at the end.
TrimSpaceAtFrontOnly(s) == TrimLeft(s)

TrimSpace(s) == TrimRight(TrimLeft(s))

HasPrefix(s, p) == Len(s) >= Len(p) /\ SubSeq(s, 1, Len(p)) = p

RECURSIVE DecimalValue(_)
DecimalValue(ds) ==
    IF Len(ds) = 0 THEN 0
    ELSE 10 * DecimalValue(SubSeq(ds, 1, Len(ds) - 1)) + DigitVal(ds[Len(ds)])

\* strconv.ParseInt(s, 10, 64): an optional sign, then one or more digits.
ParseInt(s) ==
    LET signed == Len(s) > 0 /\ s[1] \in {"+", "-"}
        ds     == IF signed THEN Tail(s) ELSE s
    IN  IF Len(ds) = 0 \/ \E i \in 1..Len(ds) : ~IsDigit(ds[i])
        THEN [ok |-> FALSE, val |-> 0]
        ELSE [ok |-> TRUE,
              val |-> IF signed /\ s[1] = "-" THEN 0 - DecimalValue(ds)
                      ELSE DecimalValue(ds)]

MaxAgePrefix == <<"m", "a", "x", "-", "a", "g", "e", "=">>

\* findMaxAge over the directives left to look at.
RECURSIVE findMaxAgeIn(_)
findMaxAgeIn(values) ==
    IF Len(values) = 0 THEN [err |-> "noMaxAge", seconds |-> 0]
    ELSE LET value == TrimSpace(Head(values))
         IN  IF HasPrefix(value, MaxAgePrefix)
             THEN LET sep == Index(value, "=")
                      n   == ParseInt(SliceFrom(value, sep + 1))
                  IN  IF n.ok THEN [err |-> "nil", seconds |-> n.val]
                      ELSE [err |-> "parseInt", seconds |-> 0]
             ELSE findMaxAgeIn(Tail(values))

findMaxAge(cc) == findMaxAgeIn(Split(cc, ","))

\* --------------------------------------------------------- header inputs
HdrMaxAge300 == <<"m", "a", "x", "-", "a", "g", "e", "=", "3", "0", "0">>
HdrPublicMaxAge1 ==
    <<"p", "u", "b", "l", "i", "c", ",", " ",
      "m", "a", "x", "-", "a", "g", "e", "=", "1">>
HdrMaxAge0 == <<"m", "a", "x", "-", "a", "g", "e", "=", "0">>
HdrMaxAgeMinus1 == <<"m", "a", "x", "-", "a", "g", "e", "=", "-", "1">>
HdrNoStore == <<"n", "o", "-", "s", "t", "o", "r", "e">>

Headers == {HdrMaxAge300, HdrPublicMaxAge1, HdrMaxAge0, HdrMaxAgeMinus1, HdrNoStore}

\* ------------------------------------------------------- key documents
Kids == {"k1", "k2"}

\* What a JSON value of the key document may hold: a PEM-wrapped X.509
\* certificate with an RSA key, one with an ECDSA key, a PEM block whose
\* bytes are no certificate, and text with no PEM block in it.
Pems == {"certRSA", "certEC", "badDER", "notPEM"}

KeyMaps == UNION {[D -> Pems] : D \in SUBSET Kids}

EmptyMap == [k \in {} |-> "certRSA"]

\* The members of a JSON object in the order of its text; a name may repeat.
Entries == [kid : Kids, pem : Pems]

JsonObjects == UNION {[1..n -> Entries] : n \in 0..MaxEntries}

\* The response body: the text of a JSON object of strings, or text that
\* json.Unmarshal rejects.
Bodies == {[json |-> TRUE, entries |-> o] : o \in JsonObjects}
            \cup {[json |-> FALSE, entries |-> <<>>]}

\* The names of a JSON object's members.
Names(entries) == {entries[i].kid : i \in 1..Len(entries)}

\* json.Unmarshal into a map[string]string: the last member of a name wins.
Unmarshal(entries) ==
    [k \in Names(entries) |->
        LET last == CHOOSE i \in 1..Len(entries) :
                       /\ entries[i].kid = k
                       /\ \A j \in (i + 1)..Len(entries) : entries[j].kid # k
        IN  entries[last].pem]

\* What ctxhttp.Do returns: an error, or a response with its Cache-Control value.
NoResp == [err |-> "none", cc |-> <<>>]

Responses ==
    {[err |-> "transport", cc |-> <<>>]} \cup {[err |-> "nil", cc |-> h] : h \in Headers}

\* What ioutil.ReadAll returns: an error, or the body.
BodyReads ==
    {[err |-> "read", body |-> [json |-> FALSE, entries |-> <<>>]]}
    \cup {[err |-> "nil", body |-> b] : b \in Bodies}

\* pem.Decode: the block, or nil when the input holds no PEM block.
pemDecode(key) ==
    IF key = "notPEM" THEN [nil |-> TRUE, Bytes |-> ""]
    ELSE [nil |-> FALSE, Bytes |-> key]

\* x509.ParseCertificate on a block's bytes.
ParseCertificate(bytes) ==
    CASE bytes = "certRSA" -> [err |-> "nil", alg |-> "RSA", PublicKey |-> "rsaA"]
      [] bytes = "certEC"  -> [err |-> "nil", alg |-> "ECDSA", PublicKey |-> "ecA"]
      [] OTHER             -> [err |-> "x509", alg |-> "", PublicKey |-> ""]

NoKey == [Kid |-> "", Key |-> ""]

\* parsePublicKey: block.Bytes is read without a nil check, so an input
\* with no PEM block is a nil dereference (a run-time panic).
parsePublicKey(kid, key) ==
    LET block == pemDecode(key)
    IN  IF block.nil THEN [out |-> "panic", err |-> "nil deref", pk |-> NoKey]
        ELSE LET cert == ParseCertificate(block.Bytes)
             IN  IF cert.err # "nil"
                 THEN [out |-> "err", err |-> cert.err, pk |-> NoKey]
                 ELSE IF cert.alg # "RSA"
                 THEN [out |-> "err", err |-> "notRSA", pk |-> NoKey]
                 ELSE [out |-> "ok", err |-> "nil",
                       pk |-> [Kid |-> kid, Key |-> cert.PublicKey]]

\* The sequences that list each element of S once: the orders in which a
\* range over a Go map may visit its keys.
Orders(S) ==
    {o \in [1..Cardinality(S) -> S] : \A i, j \in 1..Cardinality(S) : o[i] = o[j] => i = j}

\* parsePublicKeys with the failing entries skipped instead of ending the call.
parsePublicKeysSkipsBad(body) ==
    IF ~body.json THEN {[out |-> "err", err |-> "json", keys |-> <<>>]}
    ELSE LET m    == Unmarshal(body.entries)
             good == {k \in DOMAIN m : parsePublicKey(k, m[k]).out = "ok"}
         IN  {[out |-> "ok", err |-> "nil",
               keys |-> [i \in 1..Len(o) |-> parsePublicKey(o[i], m[o[i]]).pk]] :
                  o \in Orders(good)}

\* parsePublicKeys reading the members of the text one by one, with no map
\* in between: a name that repeats gives a key each time.
parsePublicKeysPerMember(body) ==
    IF ~body.json THEN {[out |-> "err", err |-> "json", keys |-> <<>>]}
    ELSE LET e   == body.entries
             bad == {i \in 1..Len(e) : parsePublicKey(e[i].kid, e[i].pem).out # "ok"}
         IN  IF bad = {}
             THEN {[out |-> "ok", err |-> "nil",
                    keys |-> [i \in 1..Len(e) |-> parsePublicKey(e[i].kid, e[i].pem).pk]]}
             ELSE {[out |-> parsePublicKey(e[i].kid, e[i].pem).out,
                    err |-> parsePublicKey(e[i].kid, e[i].pem).err,
                    keys |-> <<>>] : i \in bad}

\* parsePublicKeys: the possible results.  The map is visited in an order
\* the run time picks; the first entry that does not parse ends the call.
parsePublicKeys(body) ==
    IF ~body.json THEN {[out |-> "err", err |-> "json", keys |-> <<>>]}
    ELSE LET m      == Unmarshal(body.entries)
             bad    == {k \in DOMAIN m : parsePublicKey(k, m[k]).out # "ok"}
         IN  IF bad = {}
             THEN {[out |-> "ok", err |-> "nil",
                    keys |-> [i \in 1..Len(o) |-> parsePublicKey(o[i], m[o[i]]).pk]] :
                       o \in Orders(DOMAIN m)}
             ELSE {[out |-> parsePublicKey(k, m[k]).out,
                    err |-> parsePublicKey(k, m[k]).err,
                    keys |-> <<>>] : k \in bad}


\* ------------------------------------------------ signing and verification
\* base64.RawURLEncoding's alphabet; a character's value is its place less one.
encodeURL ==
    <<"A", "B", "C", "D", "E", "F", "G", "H", "I", "J", "K", "L", "M", "N", "O", "P",
      "Q", "R", "S", "T", "U", "V", "W", "X", "Y", "Z", "a", "b", "c", "d", "e", "f",
      "g", "h", "i", "j", "k", "l", "m", "n", "o", "p", "q", "r", "s", "t", "u", "v",
      "w", "x", "y", "z", "0", "1", "2", "3", "4", "5", "6", "7", "8", "9", "-", "_">>

SextetOf(ch) == (CHOOSE i \in 1..Len(encodeURL) : encodeURL[i] = ch) - 1

\* base64.RawURLEncoding.EncodeToString: three bytes to four characters, a
\* tail of one or two bytes to two or three, no padding.
RECURSIVE EncodeToString(_)
EncodeToString(src) ==
    IF Len(src) = 0 THEN <<>>
    ELSE IF Len(src) = 1
    THEN <<encodeURL[(src[1] \div 4) + 1], encodeURL[(src[1] % 4) * 16 + 1]>>
    ELSE IF Len(src) = 2
    THEN <<encodeURL[(src[1] \div 4) + 1],
           encodeURL[(src[1] % 4) * 16 + (src[2] \div 16) + 1],
           encodeURL[(src[2] % 16) * 4 + 1]>>
    ELSE <<encodeURL[(src[1] \div 4) + 1],
           encodeURL[(src[1] % 4) * 16 + (src[2] \div 16) + 1],
           encodeURL[(src[2] % 16) * 4 + (src[3] \div 64) + 1],
           encodeURL[(src[3] % 64) + 1]>> \o EncodeToString(SubSeq(src, 4, Len(src)))

\* The decoder passes over carriage returns and line feeds.
RECURSIVE WithoutNewlines(_)
WithoutNewlines(s) ==
    IF Len(s) = 0 THEN <<>>
    ELSE IF Head(s) \in {"\r", "\n"} THEN WithoutNewlines(Tail(s))
    ELSE <<Head(s)>> \o WithoutNewlines(Tail(s))

\* The bytes of a run of sextets: four to three bytes, a tail of two or three
\* to one or two, the bits left over dropped.
RECURSIVE BytesOfSextets(_)
BytesOfSextets(v) ==
    IF Len(v) < 2 THEN <<>>
    ELSE IF Len(v) = 2 THEN <<v[1] * 4 + (v[2] \div 16)>>
    ELSE IF Len(v) = 3
    THEN <<v[1] * 4 + (v[2] \div 16), (v[2] % 16) * 16 + (v[3] \div 4)>>
    ELSE <<v[1] * 4 + (v[2] \div 16), (v[2] % 16) * 16 + (v[3] \div 4),
           (v[3] % 4) * 64 + v[4]>> \o BytesOfSextets(SubSeq(v, 5, Len(v)))

\* base64.RawURLEncoding.DecodeString: a character outside the alphabet (the
\* padding character included) or a lone trailing character is an error.
DecodeString(s) ==
    LET t == WithoutNewlines(s)
    IN  IF \/ \E i \in 1..Len(t) : \A j \in 1..Len(encodeURL) : encodeURL[j] # t[i]
           \/ Len(t) % 4 = 1
        THEN [err |-> "base64", bytes |-> <<>>]
        ELSE [err |-> "nil", bytes |-> BytesOfSextets([i \in 1..Len(t) |-> SextetOf(t[i])])]

\* The bytes of the characters that tokens are made of here.
ByteOf(ch) ==
    CASE ch = "." -> 46
      [] ch = "h" -> 104
      [] ch = "p" -> 112
      [] ch = "q" -> 113

Bytes(str) == [i \in 1..Len(str) |-> ByteOf(str[i])]

\* sha256 over the bytes written to it, cut down to one byte: a polynomial
\* digest, free of collisions on the messages signed here.
RECURSIVE sha256(_)
sha256(data) ==
    IF Len(data) = 0 THEN 7
    ELSE (sha256(SubSeq(data, 1, Len(data) - 1)) * 31 + data[Len(data)]) % 251

\* RSA keys: no key, two key pairs, and a key pair whose modulus is too short
\* to hold a PKCS #1 v1.5 SHA-256 signature.
NilPk == "nil"

PrivateKeys == {"privA", "privB", "privShort"}

PublicOf(pk) ==
    CASE pk = "privA" -> "rsaA"
      [] pk = "privB" -> "rsaB"
      [] pk = "privShort" -> "rsaShort"

KeyByte(pub) ==
    CASE pub = "rsaA" -> 65
      [] pub = "rsaB" -> 66
      [] OTHER -> 67

\* rsa.SignPKCS1v15: deterministic in the key and the digest; fails with a
\* key too short for the encoded digest.
SignPKCS1v15(pk, hashed) ==
    IF pk = "privShort" THEN [err |-> "messageTooLong", sig |-> <<>>]
    ELSE [err |-> "nil", sig |-> <<KeyByte(PublicOf(pk)), hashed>>]

\* rsa.VerifyPKCS1v15: nil exactly for the signature the public key's private
\* counterpart makes over the digest.
VerifyPKCS1v15(pub, hashed, sig) ==
    IF sig = <<KeyByte(pub), hashed>> THEN "nil" ELSE "verification"

\* verifySignature's content with the separator left out.
ContentWithoutDot(parts) == parts[1] \o parts[2]

\* verifySignature's content: parts[0] + "." + parts[1].
Content(parts) == parts[1] \o <<".">> \o parts[2]

\* verifySignature(parts, k).
verifySignature(parts, k) ==
    LET signature == DecodeString(parts[3])
    IN  IF signature.err # "nil" THEN signature.err
        ELSE VerifyPKCS1v15(k.Key, sha256(Bytes(Content(parts))), signature.bytes)

\* Email, were it to ask for the private key as well.
EmailNeedsKey(s) ==
    IF s.email = "" \/ s.pk = NilPk THEN [err |-> "noEmail", email |-> ""]
    ELSE [err |-> "nil", email |-> s.email]

\* serviceAcctSigner.Email.
Email(s) ==
    IF s.email = "" THEN [err |-> "noEmail", email |-> ""]
    ELSE [err |-> "nil", email |-> s.email]

\* serviceAcctSigner.Sign.
Sign(s, ss) ==
    IF s.pk = NilPk THEN [err |-> "noKey", sig |-> <<>>]
    ELSE SignPKCS1v15(s.pk, sha256(ss))


\* ------------------------------------------------------------------ state
VARIABLES
    KeyURI,      \* httpKeySource.KeyURI: "valid" or "invalid" (http.NewRequest rejects it)
    HTTPClient,  \* httpKeySource.HTTPClient
    Clock,       \* httpKeySource.Clock: which clock the source reads
    CachedKeys,  \* httpKeySource.CachedKeys: a slice, as a reference into heap (0: nil)
    ExpiryTime,  \* httpKeySource.ExpiryTime
    clock,       \* what httpKeySource.Clock.Now() returns
    Mutex,       \* httpKeySource.Mutex: TRUE while locked
    heap,        \* the backing arrays allocated so far
    pc,          \* where each caller is in Keys
    resp,        \* refreshKeys' local resp
    newKeys,     \* refreshKeys' locals contents (as decoded) and newKeys
    ret,         \* what each caller's last Keys call returned
    calls,       \* history: Keys calls started so far
    fetches,     \* history: requests the caller's current call has handed to ctxhttp.Do
    trigger,     \* history: why the caller's current call refreshed
    snap,        \* history: the refresh whose snapshot the cache holds (document, expiry)
    observed,    \* history: the refresh that completed while the caller waited for the lock
    lastEnd,     \* history: how the last Keys call to end ended
    input,       \* the argument of a function applied on its own (not used by the cache)
    output       \* that function's result

vars == <<KeyURI, HTTPClient, Clock, CachedKeys, ExpiryTime, clock, Mutex, heap, pc,
          resp, newKeys, ret, calls, fetches, trigger, snap, observed, lastEnd,
          input, output>>

\* What the variables of the functions applied on their own hold before that.
NoValue == [kind |-> "none"]

\* The cache leaves those variables alone.
pureVars == <<input, output>>

sourceVars == <<KeyURI, HTTPClient, Clock, CachedKeys, ExpiryTime, clock, Mutex, heap, pc,
                resp, newKeys, ret, calls, fetches, trigger, snap, observed, lastEnd>>

\* The zero time.Time (year 1) precedes every clock reading.
ZeroTime == -1000

NilSlice == 0

\* The elements a slice value gives access to.
Deref(ref) == IF ref = NilSlice THEN <<>> ELSE heap[ref]

NoRet == [keys |-> NilSlice, err |-> "pending"]

NoNewKeys == [names |-> {}, m |-> EmptyMap, keys |-> <<>>]

NoSnap == [set |-> FALSE, names |-> {}, m |-> EmptyMap, cc |-> <<>>, exp |-> 0, at |-> 0]

NoneObserved == [seen |-> FALSE, ref |-> NilSlice, exp |-> 0]

\* newHTTPKeySource, with the Clock a test may substitute read as 0.
\* newHTTPKeySource, and nobody inside Keys.
InitSource ==
    /\ KeyURI \in {"valid", "invalid"}
    /\ HTTPClient = "hc"
    /\ Clock = "systemClock"
    /\ CachedKeys = NilSlice
    /\ ExpiryTime = ZeroTime
    /\ clock = 0
    /\ Mutex = FALSE
    /\ heap = <<>>
    /\ pc = [c \in Callers |-> "idle"]
    /\ resp = [c \in Callers |-> NoResp]
    /\ newKeys = [c \in Callers |-> NoNewKeys]
    /\ ret = [c \in Callers |-> NoRet]
    /\ calls = 0
    /\ fetches = [c \in Callers |-> 0]
    /\ trigger = [c \in Callers |-> "none"]
    /\ snap = NoSnap
    /\ observed = [c \in Callers |-> NoneObserved]
    /\ lastEnd = "ok"

Init ==
    /\ InitSource
    /\ input = NoValue
    /\ output = NoValue

\* hasExpired with the comparison turned round: ExpiryTime.After(Clock.Now()).
hasExpiredReversed == ExpiryTime > clock

\* hasExpired with the expiry instant itself counted as expired.
hasExpiredAtOrAfter == clock >= ExpiryTime

\* hasExpired: Clock.Now().After(ExpiryTime).
hasExpired == clock > ExpiryTime

\* Keys' test, were an empty cache left alone right after a failed refresh.
NeedsRefreshUnlessLastFailed ==
    (Len(Deref(CachedKeys)) = 0 /\ lastEnd # "failed") \/ hasExpired

\* Keys' test: len(k.CachedKeys) == 0 || k.hasExpired().
NeedsRefresh == Len(Deref(CachedKeys)) = 0 \/ hasExpired

\* A Lock that never waits.
MutexNeverBlocks == TRUE

\* sync.Mutex.Lock returns only once the mutex is unlocked.
MutexUnlocked == Mutex = FALSE

\* The expiry with max-age left out: Clock.Now().
NewExpiryWithoutMaxAge(now, maxAge) == now

\* The expiry refreshKeys installs: Clock.Now().Add(maxAge).
NewExpiry(now, maxAge) == now + maxAge

\* The slice refreshKeys installs: append([]*publicKey(nil), newKeys...), which
\* is nil for no keys and a fresh backing array otherwise.
AppendToNil(keys) == IF Len(keys) = 0 THEN NilSlice ELSE Len(heap) + 1

\* What Keys returns once refreshKeys has returned err with the cache at ref.
KeysResult(err, ref, elems) ==
    IF err # "nil" /\ Len(elems) = 0
    THEN [keys |-> NilSlice, err |-> err]
    ELSE [keys |-> ref, err |-> "nil"]

\* Keys, were it to answer a failed refresh with another request.
FailedRefreshRetries(c, err) ==
    /\ fetches' = [fetches EXCEPT ![c] = @ + 1]
    /\ pc' = [pc EXCEPT ![c] = "Do"]
    /\ resp' = [resp EXCEPT ![c] = NoResp]
    /\ newKeys' = [newKeys EXCEPT ![c] = NoNewKeys]
    /\ UNCHANGED <<CachedKeys, ExpiryTime, heap, snap, observed, ret, Mutex, lastEnd>>

\* refreshKeys returns err without having installed anything and Keys returns;
\* the deferred Unlock runs.
FailedRefreshReturn(c, err) ==
    /\ ret' = [ret EXCEPT ![c] = KeysResult(err, CachedKeys, Deref(CachedKeys))]
    /\ Mutex' = FALSE
    /\ pc' = [pc EXCEPT ![c] = "idle"]
    /\ resp' = [resp EXCEPT ![c] = NoResp]
    /\ newKeys' = [newKeys EXCEPT ![c] = NoNewKeys]
    /\ lastEnd' = "failed"
    /\ UNCHANGED <<CachedKeys, ExpiryTime, heap, snap, observed, fetches>>

\* A caller enters Keys and reaches Mutex.Lock().
KeysCall(c) ==
    /\ pc[c] = "idle"
    /\ calls < MaxCalls
    /\ calls' = calls + 1
    /\ pc' = [pc EXCEPT ![c] = "Lock"]
    /\ ret' = [ret EXCEPT ![c] = NoRet]
    /\ fetches' = [fetches EXCEPT ![c] = 0]
    /\ trigger' = [trigger EXCEPT ![c] = "none"]
    /\ observed' = [observed EXCEPT ![c] = NoneObserved]
    /\ UNCHANGED <<pureVars, KeyURI, HTTPClient, Clock, CachedKeys, ExpiryTime, clock, Mutex,
                   heap, resp, newKeys, snap, lastEnd>>

\* Mutex.Lock() returns to the caller.
MutexLock(c) ==
    /\ pc[c] = "Lock"
    /\ MutexUnlocked
    /\ Mutex' = TRUE
    /\ pc' = [pc EXCEPT ![c] = "check"]
    /\ UNCHANGED <<pureVars, KeyURI, HTTPClient, Clock, CachedKeys, ExpiryTime, clock, heap,
                   resp, newKeys, ret, calls, fetches, trigger, snap, observed, lastEnd>>

\* The httpClient argument of Keys: none, or a client to use for this call.
NilClient == "nil"

ClientArgs == {NilClient, "override"}

\* HTTPClient with the override written to the field instead of the local.
HTTPClientOverwritten(httpClient) ==
    IF httpClient # NilClient THEN httpClient ELSE HTTPClient

\* The HTTPClient field once refreshKeys has picked the client of its request:
\* the choice is kept in the local client.
HTTPClientAfter(httpClient) == HTTPClient

\* Keys' test of the cache.  A stale or empty cache starts refreshKeys: the
\* cache is cleared, the request is built and handed to ctxhttp.Do; a KeyURI
\* that http.NewRequest rejects ends the call with that error.  Otherwise the
\* call returns the cached slice; the deferred Unlock runs on each return.
KeysCheck(c) ==
    /\ pc[c] = "check"
    /\ IF NeedsRefresh
       THEN /\ CachedKeys' = NilSlice
            /\ snap' = NoSnap
            /\ trigger' = [trigger EXCEPT ![c] =
                             IF Len(Deref(CachedKeys)) = 0 THEN "empty" ELSE "stale"]
            /\ IF KeyURI = "invalid"
               THEN /\ ret' = [ret EXCEPT ![c] = KeysResult("newRequest", NilSlice, <<>>)]
                    /\ Mutex' = FALSE
                    /\ pc' = [pc EXCEPT ![c] = "idle"]
                    /\ lastEnd' = "failed"
                    /\ UNCHANGED <<fetches, HTTPClient>>
               ELSE /\ \E httpClient \in ClientArgs :
                         HTTPClient' = HTTPClientAfter(httpClient)
                    /\ fetches' = [fetches EXCEPT ![c] = @ + 1]
                    /\ pc' = [pc EXCEPT ![c] = "Do"]
                    /\ UNCHANGED <<ret, Mutex, lastEnd>>
       ELSE /\ ret' = [ret EXCEPT ![c] = [keys |-> CachedKeys, err |-> "nil"]]
            /\ Mutex' = FALSE
            /\ pc' = [pc EXCEPT ![c] = "idle"]
            /\ lastEnd' = "ok"
            /\ UNCHANGED <<CachedKeys, fetches, trigger, snap, HTTPClient>>
    /\ UNCHANGED <<pureVars, KeyURI, Clock, ExpiryTime, clock, heap, resp, newKeys, calls,
                   observed>>

\* ctxhttp.Do returns: a transport error (the context's cancellation or
\* deadline included), which ends the call, or a response.
DoReturn(c) ==
    /\ pc[c] = "Do"
    /\ \E r \in Responses :
         IF r.err # "nil"
         THEN FailedRefreshReturn(c, r.err)
         ELSE /\ resp' = [resp EXCEPT ![c] = r]
              /\ pc' = [pc EXCEPT ![c] = "ReadAll"]
              /\ UNCHANGED <<CachedKeys, ExpiryTime, Mutex, heap, newKeys, ret, snap, observed,
                             fetches, lastEnd>>
    /\ UNCHANGED <<pureVars, KeyURI, HTTPClient, Clock, clock, calls, trigger>>

\* What ioutil.ReadAll followed by parsePublicKeys can come to, over every
\* body the server may send: the result, and for a parsed document the names
\* of its text and its decoded contents.
ReadOutcomes ==
    UNION {IF rd.err # "nil"
           THEN {[p |-> [out |-> "err", err |-> rd.err, keys |-> <<>>], newKeys |-> NoNewKeys]}
           ELSE {[p |-> p,
                  newKeys |-> IF p.out # "ok" THEN NoNewKeys
                              ELSE [names |-> Names(rd.body.entries),
                                    m |-> Unmarshal(rd.body.entries),
                                    keys |-> p.keys]] : p \in parsePublicKeys(rd.body)} :
           rd \in BodyReads}

\* ioutil.ReadAll and parsePublicKeys: a read error, a decoding error or a key
\* that does not parse ends the call; a panic unwinds the caller, the deferred
\* Unlock running all the same.
ReadAndParse(c) ==
    /\ pc[c] = "ReadAll"
    /\ \E o \in ReadOutcomes :
           LET p == o.p
           IN   CASE p.out = "err" -> FailedRefreshReturn(c, p.err)
                  [] p.out = "panic" ->
                       /\ pc' = [pc EXCEPT ![c] = "panicked"]
                       /\ Mutex' = FALSE
                       /\ resp' = [resp EXCEPT ![c] = NoResp]
                       /\ lastEnd' = "failed"
                       /\ UNCHANGED <<CachedKeys, ExpiryTime, heap, newKeys, ret, snap, observed,
                                      fetches>>
                  [] OTHER ->
                       /\ newKeys' = [newKeys EXCEPT ![c] = o.newKeys]
                       /\ pc' = [pc EXCEPT ![c] = "findMaxAge"]
                       /\ UNCHANGED <<CachedKeys, ExpiryTime, Mutex, heap, resp, ret, snap,
                                      observed, fetches, lastEnd>>
    /\ UNCHANGED <<pureVars, KeyURI, HTTPClient, Clock, clock, calls, trigger>>

\* findMaxAge and the installation of the snapshot, then Keys' return.
InstallKeys(c) ==
    /\ pc[c] = "findMaxAge"
    /\ LET maxAge == findMaxAge(resp[c].cc)
       IN  IF maxAge.err # "nil"
           THEN FailedRefreshReturn(c, maxAge.err)
           ELSE /\ CachedKeys' = AppendToNil(newKeys[c].keys)
                /\ heap' = IF Len(newKeys[c].keys) = 0 THEN heap
                           ELSE Append(heap, newKeys[c].keys)
                /\ ExpiryTime' = NewExpiry(clock, maxAge.seconds)
                /\ ret' = [ret EXCEPT ![c] = KeysResult("nil", CachedKeys', newKeys[c].keys)]
                /\ Mutex' = FALSE
                /\ pc' = [pc EXCEPT ![c] = "idle"]
                /\ resp' = [resp EXCEPT ![c] = NoResp]
                /\ newKeys' = [newKeys EXCEPT ![c] = NoNewKeys]
                /\ snap' = [set |-> TRUE, names |-> newKeys[c].names, m |-> newKeys[c].m,
                            cc |-> resp[c].cc, exp |-> ExpiryTime', at |-> clock]
                /\ lastEnd' = "ok"
                /\ UNCHANGED fetches
                /\ observed' = [d \in Callers |->
                                  IF d # c /\ pc[d] = "Lock"
                                  THEN [seen |-> TRUE, ref |-> CachedKeys', exp |-> ExpiryTime']
                                  ELSE observed[d]]
    /\ UNCHANGED <<pureVars, KeyURI, HTTPClient, Clock, clock, calls, trigger>>

\* Time passes.
Tick ==
    /\ clock < MaxClock
    /\ clock' = clock + 1
    /\ UNCHANGED <<pureVars, KeyURI, HTTPClient, Clock, CachedKeys, ExpiryTime, Mutex, heap,
                   pc, resp, newKeys, ret, calls, fetches, trigger, snap, observed, lastEnd>>

Next ==
    \/ \E c \in Callers : KeysCall(c)
    \/ \E c \in Callers : MutexLock(c)
    \/ \E c \in Callers : KeysCheck(c)
    \/ \E c \in Callers : DoReturn(c)
    \/ \E c \in Callers : ReadAndParse(c)
    \/ \E c \in Callers : InstallKeys(c)
    \/ Tick

Spec == Init /\ [][Next]_vars

\* A caller assigns to an element of the list its last call returned
\* (keys[i] = nil).
NilKey == [Kid |-> "", Key |-> "nil"]

CallerWrite(c) ==
    /\ pc[c] = "idle"
    /\ ret[c].err = "nil"
    /\ ret[c].keys # NilSlice
    /\ \E i \in 1..Len(heap[ret[c].keys]) :
         /\ heap[ret[c].keys][i] # NilKey
         /\ heap' = [heap EXCEPT ![ret[c].keys][i] = NilKey]
    /\ UNCHANGED <<pureVars, KeyURI, HTTPClient, Clock, CachedKeys, ExpiryTime, clock, Mutex,
                   pc, resp, newKeys, ret, calls, fetches, trigger, snap, observed, lastEnd>>

NextWithWrites ==
    \/ Next
    \/ \E c \in Callers : CallerWrite(c)

\* The cache with callers that write to what Keys returned to them.
SpecCallerWrites == Init /\ [][NextWithWrites]_vars

\* ------------------------------------------- the functions on their own
\* strings.Join(elems, ",").
RECURSIVE Join(_)
Join(elems) ==
    IF Len(elems) = 0 THEN <<>>
    ELSE IF Len(elems) = 1 THEN elems[1]
    ELSE elems[1] \o <<",">> \o Join(Tail(elems))

\* Directives a Cache-Control value is put together from.
DirMaxAge5 == <<"m", "a", "x", "-", "a", "g", "e", "=", "5">>
DirMaxAge7Spaced == <<" ", "m", "a", "x", "-", "a", "g", "e", "=", "7", " ">>
DirMaxAgePlus3 == <<"m", "a", "x", "-", "a", "g", "e", "=", "+", "3">>
DirMaxAgeX == <<"m", "a", "x", "-", "a", "g", "e", "=", "x">>
DirMaxAgeNothing == <<"m", "a", "x", "-", "a", "g", "e", "=">>
DirMaxAgeSpace5 == <<"m", "a", "x", "-", "a", "g", "e", "=", " ", "5">>
DirCapitals == <<"M", "a", "x", "-", "A", "g", "e", "=", "5">>
DirSMaxAge == <<"s", "-", "m", "a", "x", "a", "g", "e", "=", "5">>
DirEmpty == <<>>

Directives ==
    {DirMaxAge5, DirMaxAge7Spaced, DirMaxAgePlus3, HdrMaxAgeMinus1, DirMaxAgeX,
     DirMaxAgeNothing, DirMaxAgeSpace5, DirCapitals, DirSMaxAge, HdrNoStore, DirEmpty}

MaxDirectives == 2

HeaderInputs ==
    {[kind |-> "header", directives |-> ds, cc |-> Join(ds)] :
        ds \in UNION {[1..n -> Directives] : n \in 0..MaxDirectives}}

\* Tokens: a header and a payload, the payload the verifier is shown, the key
\* that signs and the key that verifies, and what is done to the encoded
\* signature before it is verified.
TokenHeader == <<"h">>

Payloads == {<<"p">>, <<"q">>}

Manglings == {"none", "newline", "padded", "badChar", "flipped", "cutToOne", "cutByOne"}

Mangle(sig, how) ==
    CASE how = "none" -> sig
      [] how = "newline" -> sig \o <<"\n">>
      [] how = "padded" -> sig \o <<"=">>
      [] how = "badChar" -> [sig EXCEPT ![1] = "+"]
      [] how = "flipped" -> [sig EXCEPT ![1] = IF @ = "A" THEN "B" ELSE "A"]
      [] how = "cutToOne" -> SubSeq(sig, 1, 1)
      [] how = "cutByOne" -> SubSeq(sig, 1, Len(sig) - 1)

TokenInputs ==
    [kind : {"token"}, payload : Payloads, shown : Payloads,
     pk : {"privA", "privB"}, Key : {"rsaA", "rsaB"}, how : Manglings]

Emails == {"", "svc@example.com"}

SignerInputs ==
    [kind : {"signer"}, email : Emails, pk : {NilPk} \cup PrivateKeys, payload : Payloads]

InitFunctions ==
    /\ InitSource
    /\ input \in HeaderInputs \cup TokenInputs \cup SignerInputs
    /\ output = NoValue

\* findMaxAge on a response with the header value.
FindMaxAgeStep ==
    /\ input.kind = "header"
    /\ output = NoValue
    /\ output' = [kind |-> "maxAge", r |-> findMaxAge(input.cc)]
    /\ UNCHANGED <<input, sourceVars>>

\* A token is made: the signer signs header "." payload, and the signature
\* is encoded as the third part.
SignStep ==
    /\ input.kind = "token"
    /\ output = NoValue
    /\ LET s == Sign([email |-> "", pk |-> input.pk],
                     Bytes(TokenHeader \o <<".">> \o input.payload))
       IN  output' = [kind |-> "signed", err |-> s.err,
                      parts |-> <<TokenHeader, input.payload, EncodeToString(s.sig)>>]
    /\ UNCHANGED <<input, sourceVars>>

\* The token, with what was done to it on the way, is verified.
VerifyStep ==
    /\ output.kind = "signed"
    /\ output.err = "nil"
    /\ LET parts == <<output.parts[1], input.shown, Mangle(output.parts[3], input.how)>>
       IN  output' = [kind |-> "verified",
                      err |-> verifySignature(parts, [Kid |-> "k1", Key |-> input.Key])]
    /\ UNCHANGED <<input, sourceVars>>

\* Email and Sign on one signer; the receiver is passed by value, so the
\* signer afterwards is the one the caller holds.
SignerStep ==
    /\ input.kind = "signer"
    /\ output = NoValue
    /\ LET s == [email |-> input.email, pk |-> input.pk]
       IN  output' = [kind |-> "signer", Email |-> Email(s),
                      Sign |-> Sign(s, Bytes(TokenHeader \o <<".">> \o input.payload)),
                      after |-> s]
    /\ UNCHANGED <<input, sourceVars>>

NextFunctions ==
    \/ FindMaxAgeStep
    \/ SignStep
    \/ VerifyStep
    \/ SignerStep

\* findMaxAge, Sign, verifySignature and Email applied to inputs of their own.
SpecFunctions == InitFunctions /\ [][NextFunctions]_vars

\* ------------------------------------------------------------ properties
InKeys == {"check", "Do", "ReadAll", "findMaxAge"}

InRefresh == {"Do", "ReadAll", "findMaxAge"}

Elems(seq) == {seq[i] : i \in 1..Len(seq)}

\* The elements of a slice in the next state.
DerefNext(ref) == IF ref = NilSlice THEN <<>> ELSE heap'[ref]

\* The key set of a document all of whose certificates are the RSA one.
ExpectedKeys(m) == {[Kid |-> k, Key |-> "rsaA"] : k \in DOMAIN m}

\* The seconds each header of Headers grants, as HTTP reads it.
GrantedSeconds ==
    {<<HdrMaxAge300, 300>>, <<HdrPublicMaxAge1, 1>>, <<HdrMaxAge0, 0>>,
     <<HdrMaxAgeMinus1, -1>>}

\* c's call leaves Keys' test of the cache in this step.
Checks(c) == pc[c] = "check" /\ pc'[c] # "check"

\* c's call ends in this step with a snapshot installed by it.
Installs(c) == pc[c] = "findMaxAge" /\ pc'[c] = "idle" /\ ret'[c].err = "nil"

\* c's call ends in this step, having started a refresh that installed nothing.
RefreshFails(c) ==
    /\ pc[c] \in InKeys
    /\ pc'[c] \notin InKeys
    /\ trigger'[c] # "none"
    /\ ~Installs(c)

\* C1 (as amended): after a refresh installed the key set of a document with
\* at least one entry, every Keys call that tests the cache while the clock is
\* before the installed expiry issues no fetch and returns that key set.
C1_NoFetchBeforeExpiry ==
    [][\A c \in Callers :
         (Checks(c) /\ snap.set /\ DOMAIN snap.m # {} /\ clock < snap.exp)
            => /\ pc'[c] = "idle"
               /\ fetches'[c] = 0
               /\ ret'[c].err = "nil"
               /\ Elems(DerefNext(ret'[c].keys)) = ExpectedKeys(snap.m)
               /\ Len(DerefNext(ret'[c].keys)) = Cardinality(DOMAIN snap.m)]_vars

\* C1 as stated: the same for a document of any number of entries, none included.
C1_AnyNumberOfEntries ==
    [][\A c \in Callers :
         (Checks(c) /\ snap.set /\ clock < snap.exp)
            => /\ pc'[c] = "idle"
               /\ fetches'[c] = 0
               /\ ret'[c].err = "nil"
               /\ Elems(DerefNext(ret'[c].keys)) = ExpectedKeys(snap.m)]_vars

\* A second call has returned the cached keys, unfetched, before the expiry.
C1_Witness ==
    \E c \in Callers :
        /\ pc[c] = "idle" /\ ret[c].err = "nil" /\ ret[c].keys # NilSlice
        /\ fetches[c] = 0 /\ trigger[c] = "none"
        /\ snap.set /\ clock < snap.exp /\ clock > snap.at

\* C2: a Keys call whose refresh fails returns the error, with no keys, and
\* leaves the cache empty.
C2_FailedRefreshReturnsError ==
    [][\A c \in Callers :
         RefreshFails(c)
            => /\ pc'[c] = "idle"
               /\ ret'[c].err \notin {"nil", "pending"}
               /\ ret'[c].keys = NilSlice
               /\ CachedKeys' = NilSlice]_vars

\* C3 (as amended): a Keys call refreshes exactly when, at its test, the
\* snapshot is empty or the clock is strictly after the expiry.
C3_RefreshIffEmptyOrAfter ==
    [][\A c \in Callers :
         Checks(c) => ((trigger'[c] # "none" /\ CachedKeys' = NilSlice)
                         <=> (Len(Deref(CachedKeys)) = 0 \/ clock > ExpiryTime))]_vars

\* C3 as stated: ... or the expiry is at or before the clock reading.
C3_RefreshIffEmptyOrAtOrAfter ==
    [][\A c \in Callers :
         Checks(c) => ((trigger'[c] # "none" /\ CachedKeys' = NilSlice)
                         <=> (Len(Deref(CachedKeys)) = 0 \/ clock >= ExpiryTime))]_vars

\* A call has returned the cached keys with the clock equal to the expiry: the
\* snapshot was installed with max-age=0 and the clock has not moved since.
C3_Witness ==
    \E c \in Callers :
        /\ pc[c] = "idle" /\ ret[c].err = "nil" /\ ret[c].keys = CachedKeys
        /\ CachedKeys # NilSlice /\ trigger[c] = "none"
        /\ snap.set /\ snap.at = snap.exp /\ clock = ExpiryTime /\ ExpiryTime = snap.exp

\* C4: a Keys call that finds a non-empty snapshot with the clock after its
\* expiry issues exactly one fetch; when the refresh succeeds the cache holds
\* the fetched document's key set in a new slice, with the new expiry.
C4_StaleCallRefetchesOnce ==
    /\ [](\A c \in Callers : trigger[c] = "stale" => fetches[c] = 1)
    /\ [][\A c \in Callers :
            /\ (Checks(c) /\ Len(Deref(CachedKeys)) > 0 /\ clock > ExpiryTime)
                  => (pc'[c] = "Do" /\ trigger'[c] = "stale" /\ fetches'[c] = 1)
            /\ (Installs(c) /\ trigger[c] = "stale")
                  => /\ Elems(DerefNext(CachedKeys')) = ExpectedKeys(newKeys[c].m)
                     /\ Len(DerefNext(CachedKeys')) = Cardinality(DOMAIN newKeys[c].m)
                     /\ CachedKeys' = NilSlice \/ CachedKeys' > Len(heap)
                     /\ ret'[c].keys = CachedKeys'
                     /\ \A g \in GrantedSeconds :
                          resp[c].cc = g[1] => ExpiryTime' = clock + g[2]]_vars

\* A call that found the snapshot stale has fetched once and installed keys.
C4_Witness ==
    \E c \in Callers :
        /\ pc[c] = "idle" /\ trigger[c] = "stale" /\ fetches[c] = 1
        /\ ret[c].err = "nil" /\ ret[c].keys = CachedKeys /\ CachedKeys # NilSlice

\* C5: at most one caller is between Lock and Unlock, so at most one refresh
\* is outstanding, and only that caller changes CachedKeys or ExpiryTime.
C5_OneCallerInsideLock ==
    /\ [](/\ Cardinality({c \in Callers : pc[c] \in InKeys}) <= 1
          /\ Cardinality({c \in Callers : pc[c] \in InRefresh}) <= 1
          /\ (\E c \in Callers : pc[c] \in InKeys) => Mutex)
    /\ [][(CachedKeys' # CachedKeys \/ ExpiryTime' # ExpiryTime)
            => \E c \in Callers :
                 /\ pc[c] \in InKeys /\ pc'[c] # pc[c]
                 /\ \A d \in Callers \ {c} : pc[d] \notin InKeys]_vars

\* One caller's fetch is in flight while the other waits for the lock.
C5_Witness ==
    \E c, d \in Callers : c # d /\ pc[c] = "Do" /\ pc[d] = "Lock" /\ Mutex

\* C6 (as amended): a caller that waited for the lock while another caller's
\* refresh installed a non-empty snapshot, and tests the cache with the clock
\* not past that snapshot's expiry, returns that snapshot without a fetch.
C6_BlockedCallerReusesSnapshot ==
    [][\A c \in Callers :
         (Checks(c) /\ observed[c].seen /\ observed[c].ref # NilSlice
                    /\ clock <= observed[c].exp)
            => /\ pc'[c] = "idle"
               /\ fetches'[c] = 0
               /\ ret'[c] = [keys |-> observed[c].ref, err |-> "nil"]]_vars

\* C6 as stated: the same whatever the successful refresh installed.
C6_BlockedCallerNeverFetches ==
    [][\A c \in Callers :
         (Checks(c) /\ observed[c].seen /\ clock <= observed[c].exp)
            => /\ pc'[c] = "idle"
               /\ fetches'[c] = 0
               /\ ret'[c] = [keys |-> observed[c].ref, err |-> "nil"]]_vars

\* Two calls overlapped: one fetched, the other waited and returned the
\* snapshot the first installed; one fetch in all.
C6_Witness ==
    \E c, d \in Callers :
        /\ c # d /\ pc[c] = "idle" /\ pc[d] = "idle"
        /\ observed[c].seen /\ observed[c].ref # NilSlice
        /\ ret[c] = [keys |-> observed[c].ref, err |-> "nil"]
        /\ fetches[c] = 0 /\ fetches[d] = 1 /\ ret[d] = ret[c]

\* C7: a non-empty snapshot was not expired when it was installed: its
\* expiry is not before the clock reading of its installation.
C7_InstalledNotExpired ==
    Len(Deref(CachedKeys)) > 0 => (snap.set /\ ExpiryTime = snap.exp /\ snap.exp >= snap.at)

C9_ParseNeverAborts == \A c \in Callers : pc[c] # "panicked"

\* C10: the list Keys returned is separate from the cache: a step that is no
\* step of a Keys call leaves what the cache holds unchanged, and a step of
\* the cache leaves every list already returned unchanged.
C10_ReturnedListIsACopy ==
    [][/\ (pc' = pc /\ CachedKeys' = CachedKeys) => DerefNext(CachedKeys) = Deref(CachedKeys)
       /\ \A c \in Callers :
            (pc' # pc /\ ret'[c] = ret[c]) => DerefNext(ret[c].keys) = Deref(ret[c].keys)]_vars

\* C11 (as amended): the Keys call that tests the cache next after a call
\* whose refresh failed starts a refresh, whatever the clock reads and
\* whatever expiry is installed; it issues a network fetch when
\* http.NewRequest accepts KeyURI, and none when it does not.
C11_NextCallRefreshes ==
    [][\A c \in Callers :
         (Checks(c) /\ lastEnd = "failed")
            => /\ trigger'[c] # "none"
               /\ KeyURI = "valid" => (fetches'[c] = 1 /\ pc'[c] = "Do")
               /\ KeyURI = "invalid" => (fetches'[c] = 0 /\ pc'[c] = "idle")]_vars

\* C11 as stated: that next call issues a network fetch.
C11_NextCallFetches ==
    [][\A c \in Callers :
         (Checks(c) /\ lastEnd = "failed") => fetches'[c] = 1]_vars

\* After a failed refresh that followed an installed, still future expiry,
\* the next call has its request under way.
C11_Witness ==
    \E c \in Callers :
        /\ pc[c] = "Do" /\ fetches[c] = 1
        /\ lastEnd = "failed"
        /\ clock < ExpiryTime

\* C12: a call leaves Keys only by returning to its caller, with the lock
\* released; a fetch that ends in an error (a cancelled context among them)
\* returns that error with no keys and leaves the cache empty.
C12_EveryExitReturnsUnlocked ==
    [][\A c \in Callers :
         (pc[c] \in InKeys /\ pc'[c] \notin InKeys)
            => /\ Mutex' = FALSE
               /\ pc'[c] = "idle"
               /\ ret'[c] # NoRet
               /\ pc[c] = "Do" => /\ ret'[c] = [keys |-> NilSlice, err |-> "transport"]
                                  /\ CachedKeys' = NilSlice]_vars

\* C13: whenever the lock is free the cache is empty, or holds the whole key
\* set of the one document installed last, every entry of which parsed,
\* with the expiry computed from the header of that same response.
C13_SnapshotIsOneDocument ==
    ~Mutex =>
        \/ Len(Deref(CachedKeys)) = 0
        \/ /\ snap.set
           /\ \A k \in DOMAIN snap.m : snap.m[k] = "certRSA"
           /\ Elems(Deref(CachedKeys)) = ExpectedKeys(snap.m)
           /\ Len(Deref(CachedKeys)) = Cardinality(DOMAIN snap.m)
           /\ ExpiryTime = snap.exp
           /\ \E g \in GrantedSeconds : g[1] = snap.cc /\ snap.exp = snap.at + g[2]

\* The lock is free and the cache holds a two-key document that took the
\* place of an earlier snapshot.
C13_Witness ==
    /\ ~Mutex
    /\ CachedKeys = 2
    /\ Len(Deref(CachedKeys)) = 2

\* C14: verifySignature returns no error exactly when the third part decodes
\* to the signature that the private counterpart of the key makes over
\* parts[0] "." parts[1]: what Sign produced verifies, and an altered payload,
\* another key, or a third part that is malformed or altered, is an error.
C14_VerifiesExactlyWhatWasSigned ==
    output.kind = "verified" =>
        (output.err = "nil" <=>
            /\ input.how \in {"none", "newline"}
            /\ input.shown = input.payload
            /\ \/ input.pk = "privA" /\ input.Key = "rsaA"
               \/ input.pk = "privB" /\ input.Key = "rsaB")

\* A token signed by Sign has been verified, untouched, with the signer's key.
C14_Witness ==
    /\ output.kind = "verified"
    /\ output.err = "nil"
    /\ input.how = "none"

\* C15 (as amended): Email fails exactly when the email is empty and
\* otherwise returns it; Sign fails when no key is held and, with a key held,
\* exactly when rsa.SignPKCS1v15 fails; neither result depends on the other
\* field, and the signer is left as it was.
C15_EachFieldItsOwnOperation ==
    output.kind = "signer" =>
        /\ output.Email.err # "nil" <=> input.email = ""
        /\ input.email # "" => output.Email.email = input.email
        /\ input.pk = NilPk => output.Sign.err # "nil"
        /\ input.pk # NilPk => (output.Sign.err # "nil" <=> input.pk = "privShort")
        /\ output.after = [email |-> input.email, pk |-> input.pk]

\* C15 as stated: Sign fails exactly when no key is held.
C15_SignFailsOnlyWithoutKey ==
    output.kind = "signer" =>
        /\ output.Email.err # "nil" <=> input.email = ""
        /\ input.email # "" => output.Email.email = input.email
        /\ output.Sign.err # "nil" <=> input.pk = NilPk
        /\ output.after = [email |-> input.email, pk |-> input.pk]

\* A signer with a key and no email: Sign succeeded and Email failed.
C15_Witness ==
    /\ output.kind = "signer"
    /\ input.email = "" /\ input.pk = "privA"
    /\ output.Email.err # "nil"
    /\ output.Sign.err = "nil"

\* What each directive is to findMaxAge, read off the directive itself.
DirectiveMeans(d) ==
    CASE d = DirMaxAge5 -> [is |-> "seconds", S |-> 5]
      [] d = DirMaxAge7Spaced -> [is |-> "seconds", S |-> 7]
      [] d = DirMaxAgePlus3 -> [is |-> "seconds", S |-> 3]
      [] d = HdrMaxAgeMinus1 -> [is |-> "seconds", S |-> -1]
      [] d \in {DirMaxAgeX, DirMaxAgeNothing, DirMaxAgeSpace5} -> [is |-> "notAnInteger", S |-> 0]
      [] OTHER -> [is |-> "other", S |-> 0]

\* The first directive that begins with max-age= decides.
RECURSIVE FirstMaxAge(_)
FirstMaxAge(ds) ==
    IF Len(ds) = 0 THEN [err |-> "noMaxAge", seconds |-> 0]
    ELSE LET means == DirectiveMeans(Head(ds))
         IN  CASE means.is = "seconds" -> [err |-> "nil", seconds |-> means.S]
               [] means.is = "notAnInteger" -> [err |-> "parseInt", seconds |-> 0]
               [] OTHER -> FirstMaxAge(Tail(ds))

C17_AtMostOneFetchPerCall == \A c \in Callers : fetches[c] <= 1

\* A call whose one fetch or parse failed has returned the error.
C17_Witness ==
    \E c \in Callers :
        /\ pc[c] = "idle"
        /\ ret[c].err \notin {"nil", "pending", "newRequest"}
        /\ fetches[c] = 1

\* C18: the key ids of the cached keys are pairwise distinct, and an
\* installed snapshot has one key for each name of the fetched JSON object,
\* carrying that name and the key of the certificate listed under it.
C18_OneKeyPerName ==
    LET keys == Deref(CachedKeys)
    IN  /\ \A i, j \in 1..Len(keys) : keys[i].Kid = keys[j].Kid => i = j
        /\ ~snap.set => Len(keys) = 0
        /\ snap.set =>
             /\ {keys[i].Kid : i \in 1..Len(keys)} = snap.names
             /\ \A i \in 1..Len(keys) :
                  keys[i].Key = ParseCertificate(snap.m[keys[i].Kid]).PublicKey

\* A snapshot of two keys from an object with two names.
C18_Witness ==
    /\ snap.set
    /\ snap.names = {"k1", "k2"}
    /\ Len(Deref(CachedKeys)) = 2

\* C19: a call that finds the cache filled and not expired leaves CachedKeys
\* and ExpiryTime as they are; a call whose refresh fails ends with the cache
\* empty, and ExpiryTime changes only where a refresh installs a snapshot;
\* KeyURI, HTTPClient and Clock never change.
C19_FrameOfKeys ==
    [][/\ KeyURI' = KeyURI
       /\ HTTPClient' = HTTPClient
       /\ Clock' = Clock
       /\ ExpiryTime' # ExpiryTime => \E c \in Callers : Installs(c)
       /\ \A c \in Callers :
            /\ (Checks(c) /\ Len(Deref(CachedKeys)) > 0 /\ ~(clock > ExpiryTime))
                  => /\ CachedKeys' = CachedKeys
                     /\ ExpiryTime' = ExpiryTime
                     /\ heap' = heap
            /\ RefreshFails(c) => (CachedKeys' = NilSlice /\ ExpiryTime' = ExpiryTime)]_vars

\* A refresh started on a stale snapshot has failed: the cache is empty and
\* the expiry is still the one installed before.
C19_Witness ==
    \E c \in Callers :
        /\ pc[c] = "idle"
        /\ trigger[c] = "stale"
        /\ ret[c].err \notin {"nil", "pending"}
        /\ CachedKeys = NilSlice
        /\ ExpiryTime # ZeroTime

=============================================================================
